---------------------------- MODULE Spec2Model ----------------------------
(***************************************************************************)
(* Model of the chained hash table of src/HashTable.cpp: the hash          *)
(* function, Insert, Search, Sort/PrintAll and Resize, with the bucket     *)
(* vector, the heap-allocated chain nodes and the private counters as the  *)
(* state.                                                                  *)
(*                                                                         *)
(* Conventions.                                                            *)
(*  - A std::string is a sequence of character codes (ASCII, 0..127, so    *)
(*    the signedness of char plays no part).                               *)
(*  - A pointer to a heap Node is its index in the sequence heap; NULL is  *)
(*    0.  Bucket heads live inline in the vector nodes (a function on      *)
(*    0..size-1).                                                          *)
(*  - status is "ok" while the table lives, "destroyed" once its           *)
(*    destructor has returned, "crashed" once an operation has hit a fatal *)
(*    fault.                                                               *)
(*  - An int is a mathematical integer in INT_MIN..INT_MAX; the arithmetic *)
(*    of hash() is done on its four two's-complement bytes, so that the    *)
(*    wrap-around of a 32-bit multiplication is computed exactly.          *)
(***************************************************************************)
EXTENDS Integers, Sequences, FiniteSets, TLC

VARIABLES
    nodes,       \* vector<Node> nodes: the inline bucket heads
    heap,        \* every Node allocated with new, by address (1..Len(heap))
    tableSize,   \* unsigned int tableSize
    numEntries,  \* int numEntries
    loadFactor,  \* double loadFactor, kept as the fraction <<num, den>>
    sizeBits,    \* width of size_t in the build (32 or 64)
    status,      \* "ok", "destroyed" or "crashed"
    lastOp,      \* the public operation called last and its argument
    result,      \* what that operation returned (a Course, or a vector<Course>)
    log,         \* the Insert and Resize activations of the last call of Insert
                 \* or Resize, in order
    inserted,    \* history: the courses the caller passed to Insert, in order
    lastSort,    \* the last call of std::sort on the present contents: the
                 \* vector it was given, the vector it left, and whether
                 \* the call (again) had the input of the call before it
    deleted      \* the pointers the destructor passed to delete, in order:
                 \* <<"head", i>> is &nodes[i], <<"heap", a>> the heap Node a

vars == <<nodes, heap, tableSize, numEntries, loadFactor, sizeBits, status,
          lastOp, result, log, inserted, lastSort, deleted>>

----------------------------------------------------------------------------
(* Bounds of the model *)

MaxInserts == 3        \* caller Inserts per behaviour (main specification)
MaxCtorSize == 3       \* HashTable(size) is tried for size in 0..MaxCtorSize
MaxResizeFrom == 3     \* a direct Resize() call is tried while tableSize <= this
MaxHashCap == 7        \* table sizes of the hash specification: 1..MaxHashCap
MaxKeyLen == 3         \* key lengths of the hash specification: 0..MaxKeyLen
MaxGrowFrom == 12      \* table sizes of the growth specification: 1..MaxGrowFrom
MaxFaultHead == 2      \* the destructor may fault at the delete of a bucket
                       \* head with index below this

----------------------------------------------------------------------------
(* Program constants *)

DEFAULT_SIZE == 179
INT_MAX == 2147483647
INT_MIN == -INT_MAX - 1
\* UINT_MAX, the bit pattern 0xFFFFFFFF of an unsigned int, is written -1: it
\* is only ever compared with bucket indexes, which are below 2^31.
UINT_MAX == -1
NULL == 0

----------------------------------------------------------------------------
(* 32-bit int arithmetic, as the machine does it *)

\* The k-th byte (k = 0 lowest) of the two's-complement pattern of the int x.
ByteOf(x, k) ==
    CASE k = 0 -> x % 256
      [] k = 1 -> (x \div 256) % 256
      [] k = 2 -> (x \div 65536) % 256
      [] k = 3 -> (x \div 16777216) % 256

\* The int whose pattern has bytes b0 (lowest) .. b3.
IntOfBytes(b0, b1, b2, b3) ==
    b0 + 256 * b1 + 65536 * b2
       + 16777216 * (IF b3 >= 128 THEN b3 - 256 ELSE b3)

\* x * y on ints, wrapping at 32 bits (the low 32 bits of the product).
MulWrap(x, y) ==
    LET a(k) == ByteOf(x, k)
        b(k) == ByteOf(y, k)
        s0 == a(0) * b(0)
        s1 == a(0) * b(1) + a(1) * b(0) + (s0 \div 256)
        s2 == a(0) * b(2) + a(1) * b(1) + a(2) * b(0) + (s1 \div 256)
        s3 == a(0) * b(3) + a(1) * b(2) + a(2) * b(1) + a(3) * b(0)
                 + (s2 \div 256)
    IN  IntOfBytes(s0 % 256, s1 % 256, s2 % 256, s3 % 256)

\* 2^bits mod m for bits = 32 or 64 and 1 <= m <= 46340, by squaring 2^16.
Pow2Mod(bits, m) ==
    LET p16 == 65536 % m
        p32 == (p16 * p16) % m
    IN  IF bits = 32 THEN p32 ELSE (p32 * p32) % m

\* Variant: the remainder taken on ints (size converted to int), which has
\* the sign of key.
SizeTModSigned(key, size, bits) ==
    IF key >= 0 THEN key % size ELSE -((-key) % size)

\* key % size where key is an int and size a size_t of the given width: the
\* int is converted to size_t first (a negative key becomes 2^bits + key).
SizeTMod(key, size, bits) ==
    IF key >= 0 THEN key % size
    ELSE (Pow2Mod(bits, size) + (key % size)) % size

----------------------------------------------------------------------------
(* HashTable::hash *)

\* Signed overflow is undefined in C++; builds compute key += c and
\* key *= key with the machine's add and multiply, which keep the low 32 bits.

\* key *= key
Square(key) ==
    IF -46340 <= key /\ key <= 46340 THEN key * key  \* no overflow
    ELSE MulWrap(key, key)

\* One iteration of the loop of hash(): key += int(c); key *= key; (c >= 0)
HashStep(key, c) ==
    IF key > INT_MAX - c
    THEN Square(INT_MIN + (c - (INT_MAX - key) - 1))    \* the sum wrapped
    ELSE Square(key + c)

\* key after the first n iterations of the loop of hash().
RECURSIVE HashLoop(_, _)
HashLoop(courseId, n) ==
    IF n = 0 THEN 0 ELSE HashStep(HashLoop(courseId, n - 1), courseId[n])

\* hash(courseId) in a table whose nodes.size() is size (size >= 1).
hash(courseId, size) ==
    SizeTMod(HashLoop(courseId, Len(courseId)), size, sizeBits)

----------------------------------------------------------------------------
(* Course, Node *)

\* Course(): three empty members.
EmptyCourse == [courseId |-> <<>>, courseTitle |-> "", prerequisites |-> <<>>]

\* Node(): key = UINT_MAX, next = nullptr, a default Course.
EmptyNode == [course |-> EmptyCourse, key |-> UINT_MAX, next |-> NULL]

\* Node(aCourse, aKey)
NewNode(aCourse, aKey) == [course |-> aCourse, key |-> aKey, next |-> NULL]

\* less_than_key: course1.courseId < course2.courseId, the lexicographic
\* order of std::string.
RECURSIVE StrLess(_, _)
StrLess(s, t) ==
    IF t = <<>> THEN FALSE
    ELSE IF s = <<>> THEN TRUE
    ELSE IF Head(s) # Head(t) THEN Head(s) < Head(t)
    ELSE StrLess(Tail(s), Tail(t))

less_than_key(course1, course2) == StrLess(course1.courseId, course2.courseId)

----------------------------------------------------------------------------
(* The table as a value: the members an operation reads and writes, plus   *)
(* the log of activations.  The actions below copy it from and to the      *)
(* variables.  The log has one event per activation: an Insert logs the    *)
(* incremented count and the tableSize it tests it against; a Resize logs  *)
(* the count and tableSize it starts from and the size it chooses.         *)

Table == [nodes |-> nodes, heap |-> heap, tableSize |-> tableSize,
          numEntries |-> numEntries, loadFactor |-> loadFactor,
          status |-> status, log |-> <<>>]

\* nodes.size()
Size(ns) == Cardinality(DOMAIN ns)

\* A vector of n default Nodes (nodes.resize(n), then nodes[i] = Node()).
EmptyNodes(n) == [i \in 0 .. n - 1 |-> EmptyNode]

\* The table a constructor leaves: HashTable() has size = DEFAULT_SIZE.
Constructed(size) ==
    [nodes |-> EmptyNodes(size), heap |-> <<>>, tableSize |-> size,
     numEntries |-> 0, loadFactor |-> <<0, 1>>, status |-> "ok", log |-> <<>>]

\* Variant: the test written loadFactor > 1.0.
LoadFactorOver(lf) == lf[1] > lf[2]

\* Variant: the table grown at half load, loadFactor >= 0.5.
LoadFactorHalf(lf) == 2 * lf[1] >= lf[2]

\* loadFactor >= 1.0 for loadFactor = double(num) / den.
LoadFactorTooGreat(lf) == lf[1] >= lf[2]

\* The last node of the chain that starts at heap address a (a # NULL):
\* while (current->next != nullptr) current = current->next;
RECURSIVE LastOfChain(_, _)
LastOfChain(h, a) == IF h[a].next = NULL THEN a ELSE LastOfChain(h, h[a].next)

\* The smallest candidate the scan of Resize() settles on: one pass of
\* i = 2 .. newSize / 2, in which a divisor found increments newSize and the
\* pass goes on with the next i.
RECURSIVE PrimeScan(_, _)
PrimeScan(newSize, i) ==
    IF i > newSize \div 2 THEN newSize
    ELSE IF newSize % i = 0 THEN PrimeScan(newSize + 1, i + 1)
    ELSE PrimeScan(newSize, i + 1)

\* unsigned int newSize = tableSize * 2, then the scan.  (Table sizes of the
\* model stay far below 2^31, so the product does not wrap.)
NewSize(size) == PrimeScan(size * 2, 2)

\* hash() on a table with nodes.size() = 0 computes key % 0, which is
\* undefined; where the division does not trap, the index it yields addresses
\* an element of an empty vector.  Every outcome is a fatal fault: the call
\* never returns and nothing else runs.
Faulted(T) == [T EXCEPT !.status = "crashed"]

RECURSIVE InsertT(_, _), ResizeT(_), ResizeBuckets(_, _, _, _), ResizeChain(_, _)

\* Variant: a record that collides is linked in front of its chain (it takes
\* the bucket head, the old head moves to a new node) instead of at the tail.
InsertStorePrepend(T, course) ==
    LET key == hash(course.courseId, Size(T.nodes))
    IN  IF T.nodes[key].key = UINT_MAX
        THEN [T EXCEPT !.nodes[key] = NewNode(course, key)]
        ELSE [T EXCEPT !.heap = Append(T.heap, T.nodes[key]),
                       !.nodes[key] = [course |-> course, key |-> key,
                                       next |-> Len(T.heap) + 1]]

\* The first half of Insert(course), on a table with Size(T.nodes) >= 1: the
\* record is written to the bucket head or to a new node at the chain's tail.
InsertStore(T, course) ==
    LET key == hash(course.courseId, Size(T.nodes))
    IN  IF T.nodes[key].key = UINT_MAX
        THEN [T EXCEPT !.nodes[key] = NewNode(course, key)]
        ELSE LET a == Len(T.heap) + 1
                 h == Append(T.heap, NewNode(course, key))
             IN  IF T.nodes[key].next = NULL
                 THEN [T EXCEPT !.nodes[key].next = a, !.heap = h]
                 ELSE [T EXCEPT
                         !.heap = [h EXCEPT
                                     ![LastOfChain(T.heap, T.nodes[key].next)].next = a]]

\* Variant: Insert without the load-factor test.
InsertCheckSkipped(T) == T

\* The load-factor test at the end of Insert.
InsertCheck(T) ==
    IF LoadFactorTooGreat(T.loadFactor) THEN ResizeT(T) ELSE T

\* Insert(course).  (Once the program has faulted nothing more runs; an
\* index outside the vector makes nodes[key] a fault like that of hash().)
InsertT(T, course) ==
    IF T.status # "ok" THEN T
    ELSE IF Size(T.nodes) = 0 THEN Faulted(T)
    ELSE IF hash(course.courseId, Size(T.nodes)) \notin DOMAIN T.nodes
    THEN Faulted(T)
    ELSE LET S == InsertStore(T, course)
             n == S.numEntries + 1
         IN  InsertCheck([S EXCEPT
                 !.numEntries = n,
                 !.loadFactor = <<n, S.tableSize>>,
                 !.log = Append(S.log, [ev |-> "Insert", count |-> n,
                                        cap |-> S.tableSize,
                                        newCap |-> S.tableSize])])

\* while (tempNode != nullptr) { Insert(tempNode->course); tempNode = tempNode->next; }
ResizeChain(T, tempNode) ==
    IF T.status # "ok" \/ tempNode = NULL THEN T
    ELSE LET U == InsertT(T, T.heap[tempNode].course)
         IN  ResizeChain(U, U.heap[tempNode].next)

\* Variant: the chain of bucket i re-inserted before the bucket's head.
ResizeBucketChainFirst(T, temp, i) ==
    IF temp[i].key # UINT_MAX
    THEN InsertT(ResizeChain(T, temp[i].next), temp[i].course)
    ELSE T

\* The body of the re-insertion loop for bucket i of temp.
ResizeBucket(T, temp, i) ==
    IF temp[i].key # UINT_MAX
    THEN ResizeChain(InsertT(T, temp[i].course), temp[i].next)
    ELSE T

\* for (i = lo; i <= hi; i++) { body }: the re-insertion loop of Resize over
\* buckets lo .. hi of temp, in that order.  (The range is split in halves
\* only to keep the evaluation shallow.)
ResizeBuckets(T, temp, lo, hi) ==
    IF T.status # "ok" \/ lo > hi THEN T
    ELSE IF lo = hi THEN ResizeBucket(T, temp, lo)
    ELSE LET mid == (lo + hi) \div 2
         IN  ResizeBuckets(ResizeBuckets(T, temp, lo, mid), temp, mid + 1, hi)

\* Variant: Resize() without the reset of numEntries.
KeepCount(n) == n

\* What Resize() resets numEntries to before it re-inserts.
ResetCount(n) == 0

\* Variant: Resize() that enlarges the vector and keeps every bucket where it
\* is, without re-inserting.
ResizeKeepLayout(T) ==
    LET newSize == NewSize(T.tableSize)
    IN  [T EXCEPT !.tableSize = newSize,
                  !.nodes = [i \in 0 .. newSize - 1 |->
                               IF i \in DOMAIN T.nodes THEN T.nodes[i]
                               ELSE EmptyNode],
                  !.log = Append(T.log, [ev |-> "Resize", count |-> T.numEntries,
                                         cap |-> T.tableSize,
                                         newCap |-> newSize])]

\* Resize()
ResizeT(T) ==
    LET temp == T.nodes
        newSize == NewSize(T.tableSize)
        fresh == [T EXCEPT !.tableSize = newSize,
                           !.nodes = EmptyNodes(newSize),
                           !.numEntries = ResetCount(T.numEntries),
                           !.log = Append(T.log, [ev |-> "Resize",
                                                  count |-> T.numEntries,
                                                  cap |-> T.tableSize,
                                                  newCap |-> newSize])]
    IN  ResizeBuckets(fresh, temp, 0, Size(temp) - 1)

----------------------------------------------------------------------------
(* Search and Sort *)

\* while (current->next != nullptr) { if (current->next->course.courseId == courseId) ... }
RECURSIVE SearchChain(_, _, _)
SearchChain(h, next, courseId) ==
    IF next = NULL THEN EmptyCourse
    ELSE IF h[next].course.courseId = courseId THEN h[next].course
    ELSE SearchChain(h, h[next].next, courseId)

\* Variant: Search that returns what the bucket head holds without comparing
\* its courseId.
SearchHeadOnly(ns, h, courseId) ==
    LET current == ns[hash(courseId, Size(ns))]
    IN  IF current.key = UINT_MAX THEN EmptyCourse ELSE current.course

\* Search(courseId) on a table with Size(ns) >= 1.
SearchT(ns, h, courseId) ==
    LET key == hash(courseId, Size(ns))
        current == ns[key]
    IN  IF current.key = UINT_MAX THEN EmptyCourse
        ELSE IF current.course.courseId = courseId THEN current.course
        ELSE SearchChain(h, current.next, courseId)

\* The courses of the chain nodes from heap address a on, head-first.
RECURSIVE ChainCourses(_, _)
ChainCourses(h, a) ==
    IF a = NULL THEN <<>> ELSE <<h[a].course>> \o ChainCourses(h, h[a].next)

\* Variant: the first loop of Sort without the walk along the chain.
BucketHeadOnly(ns, h, i) ==
    IF ns[i].key # UINT_MAX THEN <<ns[i].course>> ELSE <<>>

\* What the first loop of Sort pushes back for bucket i.
BucketCourses(ns, h, i) ==
    IF ns[i].key # UINT_MAX
    THEN <<ns[i].course>> \o ChainCourses(h, ns[i].next)
    ELSE <<>>

\* The first loop of Sort restricted to buckets lo .. hi: the courses pushed
\* back, in order.  (The range is split in halves only to keep the
\* evaluation shallow; the order is that of the loop, i = lo, lo+1, .. hi.)
RECURSIVE Collect(_, _, _, _)
Collect(ns, h, lo, hi) ==
    IF lo > hi THEN <<>>
    ELSE IF lo = hi THEN BucketCourses(ns, h, lo)
    ELSE LET mid == (lo + hi) \div 2
         IN  Collect(ns, h, lo, mid) \o Collect(ns, h, mid + 1, hi)

\* std::sort(first, last, less_than_key()): the results it may leave.  The
\* order of elements that compare equivalent is unspecified, so every
\* arrangement of v that is ordered under less_than_key is possible.  Built
\* front to back: the next element is any remaining one that no remaining
\* one is less than.
RECURSIVE SortedArrangements(_, _)
SortedArrangements(v, left) ==
    IF left = {} THEN {<<>>}
    ELSE UNION { { <<v[x]>> \o rest : rest \in SortedArrangements(v, left \ {x}) }
                 : x \in { y \in left : \A z \in left : ~less_than_key(v[z], v[y]) } }

StdSort(v) == SortedArrangements(v, DOMAIN v)

\* sortCourses after the first loop of Sort: what std::sort is given.
SortInput(ns, h, sortCourses) == sortCourses \o Collect(ns, h, 0, Size(ns) - 1)

\* Sort(sortCourses): the vectors it may leave in sortCourses.
SortT(ns, h, sortCourses) == StdSort(SortInput(ns, h, sortCourses))

----------------------------------------------------------------------------
(* ~HashTable *)

\* The pointers the inner loop of the destructor passes to delete from the
\* heap Node a on: while (current != nullptr) { temp = current;
\* current = current->next; delete temp; }
RECURSIVE ChainDeletes(_, _)
ChainDeletes(h, a) ==
    IF a = NULL THEN <<>>
    ELSE <<<<"heap", a>>>> \o ChainDeletes(h, h[a].next)

\* Variant: the walk of bucket i started at nodes[i].next, so that only heap
\* Nodes are deleted.
BucketDeletesChainOnly(ns, h, i) == ChainDeletes(h, ns[i].next)

\* The pointers the destructor passes to delete for bucket i: the walk starts
\* at current = &nodes[i], the inline head, and goes on along next.
BucketDeletes(ns, h, i) == <<<<"head", i>>>> \o ChainDeletes(h, ns[i].next)

\* The pointers the destructor passes to delete for buckets lo .. hi, in
\* order, if every delete returns.  (The range is split in halves only to
\* keep the evaluation shallow.)
RECURSIVE Deletes(_, _, _, _)
Deletes(ns, h, lo, hi) ==
    IF lo > hi THEN <<>>
    ELSE IF lo = hi THEN BucketDeletes(ns, h, lo)
    ELSE LET mid == (lo + hi) \div 2
         IN  Deletes(ns, h, lo, mid) \o Deletes(ns, h, mid + 1, hi)

\* The deletes at which the destructor may fault.  delete of a pointer that
\* new did not return (an inline bucket head) is undefined: it may abort the
\* program there or return.  (Faults are tried at the heads below
\* MaxFaultHead.)
FaultPoints(d) ==
    {p \in DOMAIN d : d[p][1] = "head" /\ d[p][2] < MaxFaultHead}

----------------------------------------------------------------------------
(* Inputs *)

CS101 == <<67, 83, 49, 48, 49>>
CS102 == <<67, 83, 49, 48, 50>>
CS999 == <<67, 83, 57, 57, 57>>
MATH201 == <<77, 65, 84, 72, 50, 48, 49>>

Course(id, title, prereqs) ==
    [courseId |-> id, courseTitle |-> title, prerequisites |-> prereqs]

\* The records the caller inserts in the main specification: two share an id
\* and differ in title and prerequisites.
Courses ==
    { Course(CS101, "Intro", <<>>),
      Course(CS101, "Intro again", <<CS102>>),
      Course(CS102, "Data structures", <<CS101>>),
      Course(MATH201, "Calculus", <<>>) }

\* The ids the caller searches for.
SearchKeys == {CS101, CS102, MATH201, CS999}

\* The keys of the hash specification: every string over HashAlphabet of
\* length 0..MaxKeyLen.
HashAlphabet == {49, 65, 77, 83}

RECURSIVE StringsOfLen(_)
StringsOfLen(n) ==
    IF n = 0 THEN {<<>>}
    ELSE {<<c>> \o s : c \in HashAlphabet, s \in StringsOfLen(n - 1)}

HashKeys == UNION {StringsOfLen(n) : n \in 0 .. MaxKeyLen}

----------------------------------------------------------------------------
(* Construction *)

\* No call of std::sort remembered.  (Sorting the empty vector leaves it
\* empty, so this is also the call on an empty table.)
NoSort == [in |-> <<>>, out |-> <<>>, again |-> FALSE]

\* The state a constructor leaves, for a table of the given size.
InitWith(size) ==
    /\ nodes = Constructed(size).nodes
    /\ heap = Constructed(size).heap
    /\ tableSize = Constructed(size).tableSize
    /\ numEntries = Constructed(size).numEntries
    /\ loadFactor = Constructed(size).loadFactor
    /\ sizeBits \in {32, 64}
    /\ status = "ok"
    /\ lastOp = <<"HashTable", size>>
    /\ result = <<>>
    /\ log = <<>>
    /\ inserted = <<>>
    /\ lastSort = NoSort
    /\ deleted = <<>>

\* HashTable() or HashTable(size).
Init == \/ InitWith(DEFAULT_SIZE)
        \/ \E size \in 0 .. MaxCtorSize : InitWith(size)

----------------------------------------------------------------------------
(* The public operations *)

\* The members after an operation that left the table value T.
Becomes(T) ==
    /\ nodes' = T.nodes
    /\ heap' = T.heap
    /\ tableSize' = T.tableSize
    /\ numEntries' = T.numEntries
    /\ loadFactor' = T.loadFactor
    /\ status' = T.status
    /\ log' = T.log

\* table.Insert(course), while the caller has made fewer than limit Inserts.
Insert(course, limit) ==
    /\ status = "ok"
    /\ Len(inserted) < limit
    /\ Becomes(InsertT(Table, course))
    /\ lastOp' = <<"Insert", course>>
    /\ result' = <<>>
    /\ inserted' = Append(inserted, course)
    /\ lastSort' = NoSort
    /\ UNCHANGED <<sizeBits, deleted>>

\* Variant: Search that, finding the bucket unoccupied, writes the index into
\* the head's key (takes the bucket for the key it looked up).
SearchClaimingBucket(courseId) ==
    /\ status = "ok"
    /\ IF Size(nodes) = 0 \/ hash(courseId, Size(nodes)) \notin DOMAIN nodes
       THEN /\ status' = Faulted(Table).status
            /\ result' = <<>>
            /\ UNCHANGED nodes
       ELSE /\ result' = SearchT(nodes, heap, courseId)
            /\ nodes' = IF nodes[hash(courseId, Size(nodes))].key = UINT_MAX
                        THEN [nodes EXCEPT ![hash(courseId, Size(nodes))].key =
                                               hash(courseId, Size(nodes))]
                        ELSE nodes
            /\ UNCHANGED status
    /\ UNCHANGED <<heap, tableSize, numEntries, loadFactor, log>>
    /\ lastOp' = <<"Search", courseId>>
    /\ UNCHANGED <<sizeBits, inserted, lastSort, deleted>>

\* table.Search(courseId); on a table with nodes.size() = 0 its hash()
\* faults, and so does nodes[key] for an index outside the vector.
Search(courseId) ==
    /\ status = "ok"
    /\ IF Size(nodes) = 0 \/ hash(courseId, Size(nodes)) \notin DOMAIN nodes
       THEN /\ status' = Faulted(Table).status
            /\ result' = <<>>
       ELSE /\ result' = SearchT(nodes, heap, courseId)
            /\ UNCHANGED status
    /\ UNCHANGED <<nodes, heap, tableSize, numEntries, loadFactor, log>>
    /\ lastOp' = <<"Search", courseId>>
    /\ UNCHANGED <<sizeBits, inserted, lastSort, deleted>>

\* Variant: PrintAll whose vector sortedCourses outlives the call (declared
\* static), so that a second call sorts the first call's output along with
\* the table's records.
PrintAllStaticVector ==
    /\ status = "ok"
    /\ result' \in SortT(nodes, heap,
                          IF lastOp[1] = "PrintAll" THEN result ELSE <<>>)
    /\ lastSort' = [in |-> SortInput(nodes, heap, <<>>), out |-> result',
                    again |-> (lastSort # NoSort
                                 /\ SortInput(nodes, heap, <<>>) = lastSort.in)]
    /\ lastOp' = <<"PrintAll">>
    /\ UNCHANGED <<nodes, heap, tableSize, numEntries, loadFactor, sizeBits,
                   status, log, inserted, deleted>>

\* table.PrintAll(): Sort into the empty vector sortedCourses, whose contents
\* (what is then printed) are the result.  std::sort is a function of its
\* input: given the vector of the remembered call, it leaves what it left
\* then.  Insert and Resize forget the remembered call (remembering less
\* only allows more results).
PrintAll ==
    /\ status = "ok"
    /\ result' \in (IF SortInput(nodes, heap, <<>>) = lastSort.in
                     THEN {lastSort.out}
                     ELSE SortT(nodes, heap, <<>>))
    /\ lastSort' = [in |-> SortInput(nodes, heap, <<>>), out |-> result',
                    again |-> (lastSort # NoSort
                                 /\ SortInput(nodes, heap, <<>>) = lastSort.in)]
    /\ lastOp' = <<"PrintAll">>
    /\ UNCHANGED <<nodes, heap, tableSize, numEntries, loadFactor, sizeBits,
                   status, log, inserted, deleted>>

\* table.Resize(), which is a public member, called directly while the table
\* is no larger than limit.
Resize(limit) ==
    /\ status = "ok"
    /\ tableSize <= limit
    /\ Becomes(ResizeT(Table))
    /\ lastOp' = <<"Resize">>
    /\ result' = <<>>
    /\ lastSort' = NoSort
    /\ UNCHANGED <<sizeBits, inserted, deleted>>

\* The table is destroyed (~HashTable).  Either every delete returns, or the
\* delete of a bucket head aborts the program.
Destroy ==
    /\ status = "ok"
    /\ LET d == Deletes(nodes, heap, 0, Size(nodes) - 1)
       IN  \/ /\ deleted' = d
              /\ status' = "destroyed"
           \/ \E p \in FaultPoints(d) :
                 /\ deleted' = SubSeq(d, 1, p)
                 /\ status' = "crashed"
    /\ lastOp' = <<"~HashTable">>
    /\ result' = <<>>
    /\ UNCHANGED <<nodes, heap, tableSize, numEntries, loadFactor, sizeBits,
                   log, inserted, lastSort>>

Next ==
    \/ \E course \in Courses : Insert(course, MaxInserts)
    \/ \E courseId \in SearchKeys : Search(courseId)
    \/ PrintAll
    \/ Resize(MaxResizeFrom)

Spec == Init /\ [][Next]_vars

----------------------------------------------------------------------------
(* The hash specification: one Insert of a record with any key of HashKeys *)
(* into a fresh table of any size 1..MaxHashCap.                           *)

InitHash == \E size \in 1 .. MaxHashCap : InitWith(size)

NextHash == \E courseId \in HashKeys : Insert(Course(courseId, "", <<>>), 1)

SpecHash == InitHash /\ [][NextHash]_vars

(* The lifetime specification: a table built by either constructor is      *)
(* filled by Inserts and destroyed at any moment.                          *)

NextLife ==
    \/ \E course \in Courses : Insert(course, MaxInserts)
    \/ Destroy

SpecLife == Init /\ [][NextLife]_vars

(* The growth specification: a table of any size 1..MaxGrowFrom is filled  *)
(* by Inserts of one record until it has grown.                            *)

InitGrow == \E size \in 1 .. MaxGrowFrom : InitWith(size)

NextGrow == Insert(Course(CS101, "Intro", <<>>), MaxGrowFrom)

SpecGrow == InitGrow /\ [][NextGrow]_vars

----------------------------------------------------------------------------
(* Vocabulary of the properties *)

Range(seq) == {seq[i] : i \in DOMAIN seq}

Ids(seq) == {seq[i].courseId : i \in DOMAIN seq}

\* How many times the record c occurs in seq.
Occurrences(c, seq) == Cardinality({i \in DOMAIN seq : seq[i] = c})

\* The record of the first caller Insert made with id k.
FirstInserted(k) ==
    inserted[CHOOSE i \in DOMAIN inserted :
                /\ inserted[i].courseId = k
                /\ \A j \in 1 .. i - 1 : inserted[j].courseId # k]

\* The heap nodes reachable from address a along next.
RECURSIVE ChainSet(_, _)
ChainSet(h, a) == IF a = NULL THEN {} ELSE {a} \cup ChainSet(h, h[a].next)

\* The occupied entries reachable across all chains: bucket heads and heap
\* nodes whose key is not the "never used" sentinel.
OccupiedHeads == {i \in DOMAIN nodes : nodes[i].key # UINT_MAX}

OccupiedHeap ==
    UNION { {a \in ChainSet(heap, nodes[i].next) : heap[a].key # UINT_MAX}
            : i \in DOMAIN nodes }

\* The records stored in the table ns, h.
Stored(ns, h) ==
    UNION { (IF ns[i].key # UINT_MAX THEN {ns[i].course} ELSE {})
              \cup {h[a].course : a \in ChainSet(h, ns[i].next)}
            : i \in DOMAIN ns }

\* Some Resize ran during the last call of Insert or Resize.
Resized == \E j \in DOMAIN log : log[j].ev = "Resize"

IsPrime(n) == n >= 2 /\ \A d \in 2 .. n - 1 : n % d # 0

\* The smallest prime strictly greater than n (n >= 1; one lies in n+1..2n).
SmallestPrimeAbove(n) ==
    CHOOSE p \in n + 1 .. 2 * n :
        IsPrime(p) /\ \A q \in n + 1 .. p - 1 : ~IsPrime(q)

\* The value modulo m of the unsigned 32-bit integer that has the bit
\* pattern of the int x (1 <= m < 2^22).
UnsignedMod(x, m) ==
    (((((ByteOf(x, 3) * 256 + ByteOf(x, 2)) % m) * 256 + ByteOf(x, 1)) % m)
        * 256 + ByteOf(x, 0)) % m

\* The index of a key as the specification describes it: the accumulator is
\* a 32-bit unsigned integer (add the character code, square, wrap), which
\* has the same bits as the int of HashLoop, reduced modulo the capacity.
UnsignedHash(courseId, capacity) ==
    UnsignedMod(HashLoop(courseId, Len(courseId)), capacity)

----------------------------------------------------------------------------
(* Properties *)

\* C1: after any sequence of Inserts (and the Resizes they trigger) on a
\* table of capacity >= 1, Search(k) for an id k that was inserted returns
\* the record of the first Insert made with id k.
C1_SearchReturnsFirstInserted ==
    (status = "ok" /\ lastOp[1] = "Search" /\ lastOp[2] \in Ids(inserted))
        => result = FirstInserted(lastOp[2])

\* Two different records with id CS101 were inserted, the second Insert
\* triggered a Resize that re-inserted both, and Search(CS101) returned the
\* first.
C1_Witness ==
    /\ status = "ok"
    /\ lastOp = <<"Search", CS101>>
    /\ Len(inserted) = 2
    /\ inserted[1].courseId = CS101
    /\ inserted[2].courseId = CS101
    /\ inserted[1] # inserted[2]
    /\ Len(log) = 4
    /\ log[1].count = 2
    /\ log[2].ev = "Resize"
    /\ result = inserted[1]

\* C2 (as claimed): the capacity a Resize chooses from capacity c >= 1 is the
\* smallest prime strictly greater than 2*c.
C2_ResizePicksNextPrime ==
    \A j \in DOMAIN log :
        (log[j].ev = "Resize" /\ log[j].cap >= 1)
            => log[j].newCap = SmallestPrimeAbove(2 * log[j].cap)

\* C3: an Insert (the caller's, or one made by Resize) calls Resize exactly
\* when its incremented count is >= the capacity at that moment, and a
\* caller's Insert whose incremented count is below the capacity leaves the
\* capacity as it was.
C3_LogAgrees(l) ==
    \A j \in DOMAIN l :
        /\ l[j].ev = "Insert" =>
              ((l[j].count >= l[j].cap) <=> (j < Len(l) /\ l[j + 1].ev = "Resize"))
        /\ l[j].ev = "Resize" =>
              (j > 1 /\ l[j - 1].ev = "Insert" /\ l[j - 1].count >= l[j - 1].cap)

C3_InsertStep ==
    (lastOp'[1] = "Insert" /\ status' = "ok") =>
        /\ log' # <<>>
        /\ log'[1].ev = "Insert"
        /\ log'[1].count = numEntries + 1
        /\ log'[1].cap = tableSize
        /\ C3_LogAgrees(log')
        /\ (numEntries + 1 < tableSize) => (tableSize' = tableSize /\ Len(log') = 1)
        /\ (numEntries + 1 >= tableSize) => tableSize' # tableSize

\* C3, as a property of every step: each Insert step satisfies the above.
C3_ResizeExactlyAtLoadOne == [][C3_InsertStep]_vars

\* An Insert reached the capacity and called Resize, whose re-insertions
\* stayed below the new capacity.
C3_Witness ==
    /\ status = "ok"
    /\ lastOp[1] = "Insert"
    /\ Len(log) >= 4
    /\ log[1].count >= log[1].cap
    /\ log[2].ev = "Resize"
    /\ log[3].ev = "Insert" /\ log[3].count < log[3].cap
    /\ log[4].ev = "Insert" /\ log[4].count < log[4].cap

\* C4: after n Inserts, AllSorted returns exactly n records, a permutation
\* of the inserted records, non-decreasing by id.
C4_AllSortedIsSortedPermutation ==
    (status = "ok" /\ lastOp[1] = "PrintAll") =>
        /\ Len(result) = Len(inserted)
        /\ \A c \in Range(inserted) \cup Range(result) :
              Occurrences(c, result) = Occurrences(c, inserted)
        /\ \A i, j \in DOMAIN result :
              i < j => ~StrLess(result[j].courseId, result[i].courseId)

\* AllSorted on a table that holds three records, two of them with the same
\* id, after an Insert whose Resize re-inserted all three.
C4_Witness ==
    /\ status = "ok"
    /\ lastOp[1] = "PrintAll"
    /\ Len(result) = 3
    /\ Cardinality(Ids(result)) = 2
    /\ Cardinality(Range(result)) = 3
    /\ Resized
    /\ Len(log) >= 5
    /\ OccupiedHeap # {}

\* C5: whenever a public operation has returned, numEntries is the number
\* of occupied entries reachable across all chains.
C5_CountIsOccupiedEntries ==
    status = "ok" =>
        numEntries = Cardinality(OccupiedHeads) + Cardinality(OccupiedHeap)

\* An Insert that triggered a Resize has returned, with entries in bucket
\* heads and in chains.
C5_Witness ==
    /\ status = "ok"
    /\ lastOp[1] = "Insert"
    /\ Resized
    /\ numEntries >= 3
    /\ OccupiedHeap # {}
    /\ Cardinality(OccupiedHeads) >= 2

\* C6: whenever a public operation has returned, every occupied entry with
\* id k is in the chain of bucket hash(k) under the current capacity.
C6_EntriesInTheirBucket ==
    status = "ok" =>
        \A i \in DOMAIN nodes :
            /\ nodes[i].key # UINT_MAX =>
                  hash(nodes[i].course.courseId, tableSize) = i
            /\ \A a \in ChainSet(heap, nodes[i].next) :
                  heap[a].key # UINT_MAX =>
                      hash(heap[a].course.courseId, tableSize) = i

\* An Insert has triggered a Resize that re-inserted records with three
\* different ids, some of which collide.
C6_Witness ==
    /\ status = "ok"
    /\ lastOp[1] = "Insert"
    /\ Resized
    /\ Cardinality(Ids(inserted)) = 3
    /\ OccupiedHeap # {}

\* C7 (as claimed): the bucket index of a key is the accumulator, computed
\* as a wrapping fixed-width unsigned integer, modulo the capacity.
C7_HashIsUnsignedModCapacity ==
    status = "ok" =>
        \A i \in DOMAIN nodes :
            nodes[i].key # UINT_MAX =>
                i = UnsignedHash(nodes[i].course.courseId, tableSize)

\* C8 (as claimed): after every Resize from a capacity >= 1 the capacity is
\* strictly greater than before and is prime.
C8_ResizeGrowsToPrime ==
    \A j \in DOMAIN log :
        (log[j].ev = "Resize" /\ log[j].cap >= 1)
            => (log[j].newCap > log[j].cap /\ IsPrime(log[j].newCap))

\* C9: Search(k) for an id k that was never inserted returns the empty
\* record.
C9_SearchOfAbsentIdIsEmpty ==
    (status = "ok" /\ lastOp[1] = "Search" /\ lastOp[2] \notin Ids(inserted))
        => result = EmptyCourse

\* After a Resize, Search(CS999) went to an occupied bucket whose chain
\* holds other ids only, and returned the empty record.
C9_Witness ==
    /\ status = "ok"
    /\ lastOp = <<"Search", CS999>>
    /\ nodes[hash(CS999, tableSize)].key # UINT_MAX
    /\ nodes[hash(CS999, tableSize)].next # NULL
    /\ Resized
    /\ result = EmptyCourse

\* C10 (as claimed): every Insert, on a table built by either constructor
\* with any capacity it accepts, returns with the record stored and the
\* count one greater than before.
C10_InsertStep ==
    lastOp'[1] = "Insert" =>
        /\ status' = "ok"
        /\ numEntries' = numEntries + 1
        /\ lastOp'[2] \in Stored(nodes', heap')

\* C10 (as claimed), as a property of every step: each Insert step succeeds.
C10_InsertAlwaysSucceeds == [][C10_InsertStep]_vars

\* The id a call of Insert or Search hashes.
HashedId(op) == IF op[1] = "Insert" THEN op[2].courseId ELSE op[2]

\* C11: in every call of Insert or Search on a table of capacity >= 1, the
\* index hash() returns for the call's key lies in 0 .. capacity - 1, and no
\* bucket access of the call (those of a Resize's re-insertions included) is
\* out of bounds.
C11_Step ==
    (status = "ok" /\ lastOp'[1] \in {"Insert", "Search"} /\ tableSize >= 1) =>
        /\ hash(HashedId(lastOp'), Size(nodes)) \in 0 .. tableSize - 1
        /\ status' = "ok"
        /\ \A i \in DOMAIN nodes' :
              nodes'[i].key # UINT_MAX => nodes'[i].key \in 0 .. tableSize' - 1

C11_HashIndexInRange == [][C11_Step]_vars

\* A key whose accumulator has overflowed to a negative int was inserted,
\* the table has been resized, and Search has found the key.
C11_Witness ==
    /\ status = "ok"
    /\ lastOp = <<"Search", MATH201>>
    /\ HashLoop(MATH201, Len(MATH201)) < 0
    /\ result.courseId = MATH201
    /\ tableSize \notin {DEFAULT_SIZE} \cup (0 .. MaxCtorSize)
    /\ nodes[hash(MATH201, tableSize)].key = hash(MATH201, tableSize)

\* The elements of seq with id k, in their order in seq.
WithId(seq, k) == SelectSeq(seq, LAMBDA c : c.courseId = k)

\* C12 (as claimed): AllSorted orders records with equal id by collection
\* order: for every id, the records with that id come in the output in the
\* order in which the walk of the buckets and chains met them.
C12_TiesInCollectionOrder ==
    (status = "ok" /\ lastOp[1] = "PrintAll") =>
        \A k \in Ids(result) :
            WithId(result, k) = WithId(SortInput(nodes, heap, <<>>), k)

\* C13: an AllSorted call leaves the capacity, the count and every chain as
\* they were, and returns what the previous AllSorted call returned if no
\* Insert (nor Resize) was called in between.
C13_Step ==
    (status = "ok" /\ lastOp'[1] = "PrintAll") =>
        /\ UNCHANGED <<nodes, heap, tableSize, numEntries>>
        /\ lastSort # NoSort => result' = lastSort.out
        /\ lastOp[1] = "PrintAll" => result' = result

C13_AllSortedIdempotent == [][C13_Step]_vars

\* AllSorted was called, Search in between, and AllSorted again, on a table
\* that was resized and holds two records with the same id in one chain;
\* the second call returned what the first returned.
C13_Witness ==
    /\ status = "ok"
    /\ lastOp[1] = "PrintAll"
    /\ lastSort.again
    /\ lastSort.out = result
    /\ Len(result) >= 3
    /\ Cardinality(Range(result)) > Cardinality(Ids(result))
    /\ OccupiedHeap # {}
    /\ Resized

\* C14: a Search call, whether it finds the key or not, leaves the capacity,
\* the count, the load factor and every chain (the bucket heads and the heap
\* nodes, so contents and order) exactly as they were.
C14_Step ==
    lastOp'[1] = "Search" =>
        UNCHANGED <<nodes, heap, tableSize, numEntries, loadFactor>>

C14_SearchIsReadOnly == [][C14_Step]_vars

\* Search of a key that is not in the table has returned, on a resized table
\* that holds three or more records, some of them in chain nodes.
C14_Witness ==
    /\ status = "ok"
    /\ lastOp = <<"Search", CS999>>
    /\ result = EmptyCourse
    /\ Resized
    /\ OccupiedHeap # {}
    /\ nodes[hash(CS999, tableSize)].key = UINT_MAX
    /\ numEntries >= 3

\* The records of the caller's Inserts that hash to bucket i of a table of
\* the given capacity, in the order of the Inserts.
InsertedInto(seq, capacity, i) ==
    SelectSeq(seq, LAMBDA c : hash(c.courseId, capacity) = i)

\* Every chain holds its entries in the order of the caller's Inserts.
ChainsInInsertionOrder(ns, h, seq) ==
    \A i \in DOMAIN ns :
        BucketCourses(ns, h, i) = InsertedInto(seq, Size(ns), i)

\* C15 (as claimed): in every chain the entries appear in the order in which
\* the caller inserted them, and every Insert keeps it so, the Inserts that
\* trigger a Resize included.
C15_InsertStepOriginal ==
    (status' = "ok" /\ lastOp'[1] = "Insert"
        /\ ChainsInInsertionOrder(nodes, heap, inserted))
        => ChainsInInsertionOrder(nodes', heap', inserted')

C15_ChainsKeepInsertionOrder == [][C15_InsertStepOriginal]_vars

\* C15 (amended): in every chain the entries that share an id appear in the
\* order in which the caller inserted them, after any Inserts and Resizes;
\* and an Insert that triggers no Resize puts its record at the tail of its
\* chain and leaves every other entry where it was.
C15_Step ==
    (status' = "ok" /\ lastOp'[1] \in {"Insert", "Resize"}) =>
        /\ \A i \in DOMAIN nodes' :
              \A k \in Ids(BucketCourses(nodes', heap', i)) :
                  WithId(BucketCourses(nodes', heap', i), k) = WithId(inserted', k)
        /\ (lastOp'[1] = "Insert" /\ tableSize' = tableSize) =>
              LET key == hash(lastOp'[2].courseId, tableSize)
              IN  \A i \in DOMAIN nodes :
                      BucketCourses(nodes', heap', i) =
                          IF i = key
                          THEN Append(BucketCourses(nodes, heap, i), lastOp'[2])
                          ELSE BucketCourses(nodes, heap, i)

C15_SameIdInInsertionOrder == [][C15_Step]_vars

\* An Insert has triggered a Resize after which one chain holds two
\* different records with the same id, and a record with another id that
\* was inserted after the record now behind it.
C15_Witness ==
    /\ status = "ok"
    /\ lastOp[1] = "Insert"
    /\ Resized
    /\ ~ChainsInInsertionOrder(nodes, heap, inserted)
    /\ \E i \in DOMAIN nodes :
          /\ Len(BucketCourses(nodes, heap, i)) >= 3
          /\ Cardinality(Ids(BucketCourses(nodes, heap, i))) = 2
          /\ Cardinality(Range(BucketCourses(nodes, heap, i))) = 3

\* The positions of the Resize activations in a log.
Resizes(l) == {j \in DOMAIN l : l[j].ev = "Resize"}

\* C16: the re-insertions a Resize makes never trigger a nested Resize: in
\* the activations of one call of Insert (or of Resize) there is at most one
\* Resize, and every Insert after it leaves the count below the new capacity.
C16_NoNestedResize ==
    status = "ok" =>
        /\ Cardinality(Resizes(log)) <= 1
        /\ \A j \in Resizes(log) :
              \A m \in j + 1 .. Len(log) :
                  /\ log[m].ev = "Insert"
                  /\ log[m].cap = log[j].newCap
                  /\ log[m].count < log[m].cap

\* An Insert that filled a table of three buckets has returned: its Resize
\* re-inserted the three records and none of them triggered another.
C16_Witness ==
    /\ status = "ok"
    /\ lastOp[1] = "Insert"
    /\ Len(log) = 5
    /\ log[1].ev = "Insert" /\ log[1].count = 3 /\ log[1].cap = 3
    /\ log[2].ev = "Resize"
    /\ log[5].ev = "Insert" /\ log[5].count = 3 /\ log[5].cap = tableSize
    /\ numEntries = 3

\* C17: for a table of capacity >= 1, whenever a public operation has
\* returned (at construction, after every caller's Insert), the count is
\* below the capacity and the stored load factor is count / capacity, below
\* 1.0.
C17_CountBelowCapacity ==
    (status = "ok" /\ tableSize >= 1) =>
        /\ numEntries < tableSize
        /\ loadFactor[1] * tableSize = numEntries * loadFactor[2]
        /\ loadFactor[1] < loadFactor[2]

\* The Insert that brought the count to the capacity has returned: the table
\* has grown and the stored load factor is that of the last re-insertion.
C17_Witness ==
    /\ status = "ok"
    /\ lastOp[1] = "Insert"
    /\ Len(log) >= 4
    /\ log[1].count = log[1].cap
    /\ log[2].ev = "Resize"
    /\ numEntries >= 2
    /\ loadFactor = <<numEntries, tableSize>>

\* The heap nodes reachable from a bucket of the current store.
ReachableHeap == UNION {ChainSet(heap, nodes[i].next) : i \in DOMAIN nodes}

\* The heap nodes that have been passed to delete.
FreedHeap == {a \in DOMAIN heap : <<"heap", a>> \in Range(deleted)}

\* C18 (as claimed): after a Resize has returned, every chain node that was
\* allocated on the heap is reachable from a bucket of the current store or
\* has been freed.
C18_ResizeLeaksNothing ==
    (status = "ok" /\ Resized) =>
        \A a \in DOMAIN heap : a \in ReachableHeap \cup FreedHeap

\* How many times the pointer ptr was passed to delete.
TimesDeleted(ptr) == Cardinality({p \in DOMAIN deleted : deleted[p] = ptr})

\* C19 (as claimed): the destructor passes no bucket head to delete, and
\* when it has returned every chain node of the table has been deleted
\* exactly once.
C19_DestructorFreesChainNodesOnly ==
    lastOp[1] = "~HashTable" =>
        /\ \A p \in DOMAIN deleted : deleted[p][1] = "heap"
        /\ status = "destroyed" =>
              \A a \in ReachableHeap : TimesDeleted(<<"heap", a>>) = 1

=============================================================================
